---- MODULE Spec2Model ----
(***************************************************************************)
(* State-machine model of src/gfop/get_food_counts.py: the group           *)
(* membership resolver (get_sample_metadata), the file-count engine        *)
(* (get_file_food_counts), the dataset aggregator (get_dataset_food_counts)*)
(* and the multi-level aggregator (get_dataset_food_counts_all).           *)
(*                                                                         *)
(* Strings that the code takes apart (UniqueFileSources, DefaultGroups,    *)
(* file names) are sequences of one-character strings, so that str.split,  *)
(* str.contains and Python's substring test `in` are computed, not assumed.*)
(* A pandas Series of counts is a function label -> count; a data frame is *)
(* a record of its index, its columns and its values.  An exception raised *)
(* by pandas is the outcome err # "none".                                  *)
(***************************************************************************)
EXTENDS Integers, Sequences, FiniteSets, TLC

VARIABLES
    gnps_network,   \* the clustering table read at lines 139 and 171
    food_metadata,  \* the table load_food_metadata returns, keyed by filename
    sample_types,   \* the sample_types argument: "all", "simple" or "complex"
    all_groups,     \* the all_groups argument
    some_groups,    \* the some_groups argument
    levels,         \* the level argument (entry "dataset") or the levels argument (entry "all")
    entry,          \* which public function was called
    pc,             \* position of the running call
    metadata_all,   \* metadata of get_dataset_food_counts_all (line 172)
    metadata,       \* metadata of get_dataset_food_counts (line 141)
    level,          \* loop variable of line 175 / level argument of line 114
    idx,            \* position of the loop of line 142 in metadata['filename'] (1-based)
    food_counts,    \* the list food_counts of line 138, then the frame of line 147
    filenames,      \* the list filenames of line 138
    file_call,      \* the last call of get_file_food_counts: its filename, level and outcome
    all_data,       \* the list all_data of line 174
    result_df,      \* the frame returned at line 184
    level_frames,   \* history: the frames line 176 has returned, one per level
    error           \* "none", or the exception that ended the call

vars == <<gnps_network, food_metadata, sample_types, all_groups, some_groups, levels,
          entry, pc, metadata_all, metadata, level, idx, food_counts, filenames,
          file_call, all_data, result_df, level_frames, error>>

inputs == <<gnps_network, food_metadata, sample_types, all_groups, some_groups, levels, entry>>

(***************************************************************************)
(* Bounds of the model.                                                    *)
(***************************************************************************)
MaxRows == 3      \* rows of the clustering table
MaxLevels == 2    \* largest value of the level / levels argument that is tried

(***************************************************************************)
(* Generic helpers.                                                        *)
(***************************************************************************)
Range(s) == {s[i] : i \in DOMAIN s}

RECURSIVE Flatten(_)
Flatten(ss) == IF ss = <<>> THEN <<>> ELSE Head(ss) \o Flatten(Tail(ss))

RECURSIVE JoinWith(_, _)
\* sep.join(parts) for parts a sequence of character sequences
JoinWith(parts, sep) ==
    IF parts = <<>> THEN <<>>
    ELSE IF Len(parts) = 1 THEN Head(parts)
    ELSE Head(parts) \o <<sep>> \o JoinWith(Tail(parts), sep)

\* Python's `sub in s` on strings
StrContains(sub, s) ==
    \E i \in 1..(Len(s) - Len(sub) + 1) : SubSeq(s, i, i + Len(sub) - 1) = sub

RECURSIVE StrSplit(_, _)
\* Python's s.split(sep) for a one-character separator
StrSplit(s, sep) ==
    IF \A i \in DOMAIN s : s[i] # sep THEN <<s>>
    ELSE LET i == CHOOSE k \in DOMAIN s : s[k] = sep /\ \A m \in 1..(k - 1) : s[m] # sep
         IN  <<SubSeq(s, 1, i - 1)>> \o StrSplit(SubSeq(s, i + 1, Len(s)), sep)

RECURSIVE DropDuplicates(_)
\* DataFrame.drop_duplicates: the first occurrence of every row, in order
DropDuplicates(s) ==
    IF s = <<>> THEN <<>>
    ELSE LET init == DropDuplicates(SubSeq(s, 1, Len(s) - 1))
             last == s[Len(s)]
         IN  IF last \in Range(init) THEN init ELSE Append(init, last)

\* number of positions of the sequence s that hold x
Occurrences(x, s) == Cardinality({i \in DOMAIN s : s[i] = x})

(***************************************************************************)
(* The inputs.  File names are character sequences; "s1.mzXML" is          *)
(* shortened to s1.  The name s1 is a substring of the name xs1.           *)
(***************************************************************************)
s1 == <<"s", "1">>
xs1 == <<"x", "s", "1">>
t2 == <<"t", "2">>
r1 == <<"r", "1">>
r2 == <<"r", "2">>
w1 == <<"w", "1">>
r4 == <<"r", "4">>

Files == {s1, xs1, t2, r1, r2, w1, r4}

\* the six named groups of line 82
groups == {"G1", "G2", "G3", "G4", "G5", "G6"}
GroupOrder == <<"G1", "G2", "G3", "G4", "G5", "G6">>

\* The group the upstream networking job put every spectrum file in.
FileGroup ==
    [f \in Files |->
        IF f \in {s1, xs1} THEN "G1"
        ELSE IF f = t2 THEN "G2"
        ELSE IF f = r4 THEN "G4"
        ELSE "G3"]

\* One cluster row as the networking job writes it: Gk holds the number of
\* the cluster's files of group k, DefaultGroups the groups that are present,
\* joined by ",", and UniqueFileSources the files, joined by "|".
ClusterRow(files) ==
    LET G == [g \in groups |-> Cardinality({i \in DOMAIN files : FileGroup[files[i]] = g})]
        present == SelectSeq(GroupOrder, LAMBDA g : G[g] > 0)
    IN  [G |-> G,
         DefaultGroups |-> JoinWith([i \in DOMAIN present |-> <<present[i]>>], ","),
         UniqueFileSources |-> JoinWith(files, "|")]

RowChoices ==
    { ClusterRow(<<s1, xs1>>),
      ClusterRow(<<t2>>),
      ClusterRow(<<s1, r1, r2, w1>>),
      ClusterRow(<<xs1, r1>>),
      ClusterRow(<<s1, t2, r1>>),
      ClusterRow(<<xs1, r4>>) }

RECURSIVE TablesOfLen(_)
TablesOfLen(n) ==
    IF n = 0 THEN {<<>>}
    ELSE {Append(t, r) : t \in TablesOfLen(n - 1), r \in RowChoices}

\* the tables read_csv can return: at least one cluster row
Tables == UNION {TablesOfLen(n) : n \in 1..MaxRows}

\* a missing value (NaN) of a pandas object
NaN == "NaN"

\* Rows of data/foodomics_multiproject_metadata.txt, keyed by filename.
FoodRecord(name, kind, l1, l2) ==
    [sample_name |-> name, simple_complex |-> kind,
     sample_type_group |-> [i \in 1..6 |-> IF i = 1 THEN l1 ELSE l2]]

MetadataA ==
    (r1 :> FoodRecord("n1", "simple", "fruit", "apple")) @@
    (r2 :> FoodRecord("n2", "simple", "fruit", "berry")) @@
    (w1 :> FoodRecord("nw", "simple", "water", "water")) @@
    (r4 :> FoodRecord("n4", "complex", "meat", "meat"))

\* r2 is a second blank
MetadataB ==
    (r1 :> FoodRecord("n1", "simple", "fruit", "fruit")) @@
    (r2 :> FoodRecord("n2", "simple", "water", "water")) @@
    (w1 :> FoodRecord("nw", "simple", "water", "water")) @@
    (r4 :> FoodRecord("n4", "complex", "meat", "meat"))

\* r1 and r2 are two files of one sample; r4 has no label below level 1
MetadataC ==
    (r1 :> FoodRecord("n1", "simple", "fruit", "fruit")) @@
    (r2 :> FoodRecord("n1", "simple", "fruit", "fruit")) @@
    (w1 :> FoodRecord("nw", "simple", "water", "water")) @@
    (r4 :> FoodRecord("n4", "complex", "meat", NaN))

\* the table of load_food_metadata with the sample_types argument of the call
FoodMetadataChoices ==
    { <<MetadataA, "all">>, <<MetadataA, "simple">>,
      <<MetadataB, "all">>, <<MetadataC, "all">> }

\* all_groups and some_groups as the caller passes them
PatternChoices ==
    { <<<<"G1">>, <<"G3">>>>,
      <<<<"G1">>, <<"G3", "G4">>>>,
      <<<<"G1", "G2">>, <<"G3">>>>,
      <<<<"G1">>, <<"G1", "G3">>>> }

\* the labels in the order in which pandas sorts them (lexicographic)
LabelOrder == <<"apple", "berry", "fruit", "meat", "n1", "n2", "n4", "nw", "water">>

(***************************************************************************)
(* get_sample_types (lines 18-33)                                          *)
(***************************************************************************)
\* the table of load_food_metadata, filtered by simple_complex, keyed by filename
get_sample_types(gfop_metadata, simple_complex) ==
    LET kept == IF simple_complex # "all"
                THEN {f \in DOMAIN gfop_metadata :
                          gfop_metadata[f].simple_complex = simple_complex}
                ELSE DOMAIN gfop_metadata
    IN  [f \in kept |-> [sample_name |-> gfop_metadata[f].sample_name,
                         sample_type_group |-> gfop_metadata[f].sample_type_group]]

(***************************************************************************)
(* get_sample_metadata (lines 35-53)                                       *)
(***************************************************************************)
\* line 46: the rows whose DefaultGroups does not contain ','
df_filtered(network) ==
    SelectSeq(network, LAMBDA row : ~StrContains(<<",">>, row.DefaultGroups))

\* a mutation of lines 46-47: str.contains(group) for isin(all_groups), on all rows
metadata_selected_contains(network, study_groups) ==
    SelectSeq(network,
              LAMBDA row : \E g \in Range(study_groups) : StrContains(<<g>>, row.DefaultGroups))

\* line 47: of those, the rows whose DefaultGroups is one of all_groups
metadata_selected(network, study_groups) ==
    SelectSeq(df_filtered(network),
              LAMBDA row : row.DefaultGroups \in {<<g>> : g \in Range(study_groups)})

\* line 48: UniqueFileSources split at '|', one row per element
df_exploded_files(selected) ==
    Flatten([i \in DOMAIN selected |->
        LET parts == StrSplit(selected[i].UniqueFileSources, "|")
        IN  [k \in DOMAIN parts |->
                [group |-> selected[i].DefaultGroups, filename |-> parts[k]]]])

\* lines 46-53: the distinct (group, filename) pairs, in order of first appearance
get_sample_metadata(network, study_groups) ==
    DropDuplicates(df_exploded_files(metadata_selected(network, study_groups)))

(***************************************************************************)
(* get_file_food_counts (lines 55-108)                                     *)
(***************************************************************************)
\* a mutation of line 83: only all_groups is taken out of the six groups
groups_excluded_all_only(study_groups, ref_groups) == groups \ Range(study_groups)

\* line 83
groups_excluded(study_groups, ref_groups) ==
    groups \ (Range(study_groups) \cup Range(ref_groups))

\* lines 84-87: the rows the three group predicates keep
group_selected(network, study_groups, ref_groups) ==
    SelectSeq(network, LAMBDA row :
        /\ \A g \in Range(study_groups) : row.G[g] > 0
        /\ \E g \in Range(ref_groups) : row.G[g] > 0
        /\ \A g \in groups_excluded(study_groups, ref_groups) : row.G[g] = 0)

\* lines 88-90: of those, the rows whose UniqueFileSources has one of the names
\* of the list filename as a substring
file_selected(selected, filename) ==
    SelectSeq(selected, LAMBDA row :
        \E k \in DOMAIN filename : StrContains(filename[k], row.UniqueFileSources))

\* lines 91-92: the names of the selected rows, one per element
exploded_filenames(selected) ==
    Flatten([i \in DOMAIN selected |-> StrSplit(selected[i].UniqueFileSources, "|")])

\* line 94: the column of the level, sample_name for level 0
level_column(types, lv) ==
    [f \in DOMAIN types |->
        IF lv > 0 THEN types[f].sample_type_group[lv] ELSE types[f].sample_name]

\* lines 96-97: reindex by the exploded names, then dropna: the label of every
\* name that has one, in order
sample_types_selected(column, names) ==
    LET known == SelectSeq(names, LAMBDA f : f \in DOMAIN column /\ column[f] # NaN)
    IN  [i \in DOMAIN known |-> column[known[i]]]

\* lines 99-102
water_count(selected, lv) ==
    IF lv > 0 THEN Occurrences("water", selected) ELSE 0

\* a mutation of line 104: >= for >
sample_counts_valid_ge(selected, floor) ==
    {l \in Range(selected) : Occurrences(l, selected) >= floor}

\* lines 103-104: the labels that occur more often than the floor
sample_counts_valid(selected, floor) ==
    {l \in Range(selected) : Occurrences(l, selected) > floor}

\* lines 105-108: value_counts of the occurrences of the valid labels
value_counts_valid(selected, lv) ==
    LET valid == sample_counts_valid(selected, water_count(selected, lv))
        kept == SelectSeq(selected, LAMBDA l : l \in valid)
    IN  [l \in Range(kept) |-> Occurrences(l, kept)]

\* Lines 81-108.  When the three group predicates keep no row, apply at line 89
\* returns an empty Series of dtype object, which pandas does not take for a
\* boolean mask but for a list of no column labels: df_selected loses its
\* columns and line 91 raises KeyError.
get_file_food_counts(network, types, study_groups, ref_groups, filename, lv) ==
    LET by_group == group_selected(network, study_groups, ref_groups)
    IN  IF by_group = <<>>
        THEN [err |-> "KeyError", counts |-> <<>>]
        ELSE [err |-> "none",
              counts |-> value_counts_valid(
                  sample_types_selected(level_column(types, lv),
                      exploded_filenames(file_selected(by_group, filename))),
                  lv)]

(***************************************************************************)
(* get_dataset_food_counts (lines 110-149)                                 *)
(***************************************************************************)
\* a mutation of line 147: the cells no Series fills are left at 1
concat_fill_one(counts_list, names) ==
    LET columns == SelectSeq(LabelOrder,
                       LAMBDA l : \E i \in DOMAIN counts_list : l \in DOMAIN counts_list[i])
    IN  [index |-> names,
         columns |-> columns,
         values |-> [i \in DOMAIN counts_list |->
                        [j \in DOMAIN columns |->
                            IF columns[j] \in DOMAIN counts_list[i]
                            THEN counts_list[i][columns[j]] ELSE 1]]]

\* Lines 147-148 for a list that is not empty: one row per Series, the columns
\* the sorted union of their labels, the missing cells 0, the index the filenames.
concat_fillna(counts_list, names) ==
    LET columns == SelectSeq(LabelOrder,
                       LAMBDA l : \E i \in DOMAIN counts_list : l \in DOMAIN counts_list[i])
    IN  [index |-> names,
         columns |-> columns,
         values |-> [i \in DOMAIN counts_list |->
                        [j \in DOMAIN columns |->
                            IF columns[j] \in DOMAIN counts_list[i]
                            THEN counts_list[i][columns[j]] ELSE 0]]]

(***************************************************************************)
(* get_dataset_food_counts_all (lines 151-184)                             *)
(***************************************************************************)
\* a mutation of line 177: the rows file by file
melt_file_major(frame) ==
    LET nr == Len(frame.index)
        nc == Len(frame.columns)
    IN  [k \in 1..(nr * nc) |->
            LET i == ((k - 1) \div nc) + 1
                j == ((k - 1) % nc) + 1
            IN  [filename |-> frame.index[i], food_type |-> frame.columns[j],
                 count |-> frame.values[i][j]]]

\* Line 177: reset_index().melt(id_vars='filename') stacks the columns one
\* after the other, each with all the rows of the frame.
melt(frame) ==
    LET nr == Len(frame.index)
        nc == Len(frame.columns)
    IN  [k \in 1..(nr * nc) |->
            LET j == ((k - 1) \div nr) + 1
                i == ((k - 1) % nr) + 1
            IN  [filename |-> frame.index[i], food_type |-> frame.columns[j],
                 count |-> frame.values[i][j]]]

\* a mutation of line 178: every row gets the number of levels
tag_levels(long, lv, n) ==
    [k \in DOMAIN long |->
        [filename |-> long[k].filename, food_type |-> long[k].food_type,
         count |-> long[k].count, level |-> n]]

\* line 178: every row gets the level of the loop (n is the levels argument)
tag_level(long, lv, n) ==
    [k \in DOMAIN long |->
        [filename |-> long[k].filename, food_type |-> long[k].food_type,
         count |-> long[k].count, level |-> lv]]

\* a mutation of line 182: the food_type column is mapped, not filename
map_group_of_food_type(long, meta) ==
    [k \in DOMAIN long |->
        LET hits == {i \in DOMAIN meta : meta[i].filename = long[k].food_type}
        IN  [filename |-> long[k].filename, food_type |-> long[k].food_type,
             count |-> long[k].count, level |-> long[k].level,
             group |-> IF hits = {} THEN NaN ELSE meta[CHOOSE i \in hits : TRUE].group]]

\* line 182: Series.map over metadata.set_index('filename')['group']; a
\* filename that is not in the index maps to NaN
map_group(long, meta) ==
    [k \in DOMAIN long |->
        LET hits == {i \in DOMAIN meta : meta[i].filename = long[k].filename}
        IN  [filename |-> long[k].filename, food_type |-> long[k].food_type,
             count |-> long[k].count, level |-> long[k].level,
             group |-> IF hits = {} THEN NaN ELSE meta[CHOOSE i \in hits : TRUE].group]]

\* line 182 raises InvalidIndexError when the index of the mapper is not unique
unique_filenames(meta) ==
    \A i, j \in DOMAIN meta : meta[i].filename = meta[j].filename => i = j

(***************************************************************************)
(* The state machine.                                                      *)
(***************************************************************************)
NoCall == [filename |-> <<>>, level |-> -1, err |-> "none", counts |-> <<>>]

Init ==
    /\ gnps_network \in Tables
    /\ \E m \in FoodMetadataChoices : food_metadata = m[1] /\ sample_types = m[2]
    /\ \E p \in PatternChoices : all_groups = p[1] /\ some_groups = p[2]
    /\ levels \in 0..MaxLevels
    /\ entry \in {"get_dataset_food_counts", "get_dataset_food_counts_all"}
    /\ pc = "start"
    /\ metadata_all = <<>>
    /\ metadata = <<>>
    /\ level = 0
    /\ idx = 1
    /\ food_counts = <<>>
    /\ filenames = <<>>
    /\ file_call = NoCall
    /\ all_data = <<>>
    /\ result_df = <<>>
    /\ level_frames = <<>>
    /\ error = "none"

\* lines 171-174: get_dataset_food_counts_all up to its loop
AllStart ==
    /\ pc = "start"
    /\ entry = "get_dataset_food_counts_all"
    /\ metadata_all' = get_sample_metadata(gnps_network, all_groups)
    /\ all_data' = <<>>
    /\ level' = 0
    /\ pc' = "all_loop"
    /\ UNCHANGED <<inputs, metadata, idx, food_counts, filenames, file_call, result_df,
                   level_frames, error>>

\* lines 138-141: get_dataset_food_counts up to its loop, called directly with
\* level = levels or from line 176 with the level of the loop
DatasetStart ==
    /\ \/ pc = "start" /\ entry = "get_dataset_food_counts" /\ level' = levels
       \/ pc = "all_loop" /\ level <= levels /\ level' = level
    /\ food_counts' = <<>>
    /\ filenames' = <<>>
    /\ metadata' = get_sample_metadata(gnps_network, all_groups)
    /\ idx' = 1
    /\ file_call' = NoCall
    /\ pc' = "file_loop"
    /\ UNCHANGED <<inputs, metadata_all, all_data, result_df, level_frames, error>>

\* lines 142-146: one iteration of the loop over metadata['filename']
FileStep ==
    /\ pc = "file_loop"
    /\ idx <= Len(metadata)
    /\ LET filename == metadata[idx].filename
           file_food_counts ==
               get_file_food_counts(gnps_network,
                                    get_sample_types(food_metadata, sample_types),
                                    all_groups, some_groups, <<filename>>, level)
       IN  /\ file_call' = [filename |-> <<filename>>, level |-> level,
                            err |-> file_food_counts.err,
                            counts |-> file_food_counts.counts]
           /\ IF file_food_counts.err # "none"
              THEN /\ error' = file_food_counts.err
                   /\ pc' = "raised"
                   /\ UNCHANGED <<food_counts, filenames, idx>>
              ELSE /\ IF DOMAIN file_food_counts.counts # {}
                      THEN /\ food_counts' = Append(food_counts, file_food_counts.counts)
                           /\ filenames' = Append(filenames, filename)
                      ELSE UNCHANGED <<food_counts, filenames>>
                   /\ idx' = idx + 1
                   /\ UNCHANGED <<pc, error>>
    /\ UNCHANGED <<inputs, metadata_all, metadata, level, all_data, result_df, level_frames>>

\* lines 147-149: pd.concat raises ValueError ("No objects to concatenate") on
\* the empty list; otherwise the frame is returned
Concat ==
    /\ pc = "file_loop"
    /\ idx > Len(metadata)
    /\ IF food_counts = <<>>
       THEN /\ error' = "ValueError"
            /\ pc' = "raised"
            /\ UNCHANGED food_counts
       ELSE /\ food_counts' = concat_fillna(food_counts, filenames)
            /\ pc' = "returned"
            /\ UNCHANGED error
    /\ UNCHANGED <<inputs, metadata_all, metadata, level, idx, filenames, file_call,
                   all_data, result_df, level_frames>>

\* lines 177-179, and the step of the loop of line 175
Melt ==
    /\ pc = "returned"
    /\ entry = "get_dataset_food_counts_all"
    /\ all_data' = Append(all_data, tag_level(melt(food_counts), level, levels))
    /\ level_frames' = Append(level_frames, food_counts)
    /\ level' = level + 1
    /\ pc' = "all_loop"
    /\ UNCHANGED <<inputs, metadata_all, metadata, idx, food_counts, filenames, file_call,
                   result_df, error>>

\* lines 181-184
AllFinish ==
    /\ pc = "all_loop"
    /\ level > levels
    /\ IF unique_filenames(metadata_all)
       THEN /\ result_df' = map_group(Flatten(all_data), metadata_all)
            /\ pc' = "done"
            /\ UNCHANGED error
       ELSE /\ error' = "InvalidIndexError"
            /\ pc' = "raised"
            /\ UNCHANGED result_df
    /\ UNCHANGED <<inputs, metadata_all, metadata, level, idx, food_counts, filenames,
                   file_call, all_data, level_frames>>

Next == AllStart \/ DatasetStart \/ FileStep \/ Concat \/ Melt \/ AllFinish

Spec == Init /\ [][Next]_vars

(***************************************************************************)
(* What the properties below say about the last call of                    *)
(* get_file_food_counts.                                                   *)
(***************************************************************************)
CallMade == file_call.level >= 0
CallReturned == CallMade /\ file_call.err = "none"

\* the label column the call reads
CallColumn ==
    level_column(get_sample_types(food_metadata, sample_types), file_call.level)

\* the exploded identifiers of the rows the call selects
CallExploded ==
    exploded_filenames(
        file_selected(group_selected(gnps_network, all_groups, some_groups),
                      file_call.filename))

\* the labels of the exploded identifiers that the ontology table matches
CallMatched == sample_types_selected(CallColumn, CallExploded)

\* the noise floor of the call
NoiseFloor ==
    IF file_call.level > 0 THEN Occurrences("water", CallMatched) ELSE 0

\* C1: every count of a table get_file_food_counts returns is strictly greater
\* than the noise floor of the call (the occurrences of "water" among the
\* matched identifiers for level > 0, and 0 for level 0); so at level > 0
\* "water" is no key of the result, and the result is empty when no label
\* occurs more often than "water".
C1_CountsAboveNoiseFloor ==
    CallReturned =>
        /\ \A l \in DOMAIN file_call.counts : file_call.counts[l] > NoiseFloor
        /\ file_call.level > 0 => "water" \notin DOMAIN file_call.counts
        /\ ( /\ file_call.level > 0
             /\ \A l \in Range(CallMatched) :
                    Occurrences(l, CallMatched) <= Occurrences("water", CallMatched) )
           => DOMAIN file_call.counts = {}

\* a call at level > 0 that met the blank and still returned a label
C1_Witness ==
    /\ CallReturned
    /\ file_call.level > 0
    /\ NoiseFloor >= 1
    /\ DOMAIN file_call.counts # {}

\* a call at level > 0 whose labels all occur no more often than the blank
C1_WitnessEmpty ==
    /\ CallReturned
    /\ file_call.level > 0
    /\ NoiseFloor >= 2
    /\ Cardinality(Range(CallMatched)) >= 2
    /\ DOMAIN file_call.counts = {}

\* The rows C2 speaks of: every group of allGroups positive, some group of
\* someGroups positive, every other group zero, and the target file an element
\* of the list.
C2_Rows ==
    SelectSeq(gnps_network, LAMBDA row :
        /\ \A g \in Range(all_groups) : row.G[g] > 0
        /\ \E g \in Range(some_groups) : row.G[g] > 0
        /\ \A g \in groups \ (Range(all_groups) \cup Range(some_groups)) : row.G[g] = 0
        /\ \E k \in DOMAIN file_call.filename :
               file_call.filename[k] \in Range(StrSplit(row.UniqueFileSources, "|")))

C2_Labels ==
    LET ids == exploded_filenames(C2_Rows)
        present == SelectSeq(ids, LAMBDA f : f \in DOMAIN CallColumn /\ CallColumn[f] # NaN)
    IN  [i \in DOMAIN present |-> CallColumn[present[i]]]

C2_Counts ==
    LET kept == {l \in Range(C2_Labels) :
                    Occurrences(l, C2_Labels) > Occurrences("water", C2_Labels)}
    IN  [l \in kept |-> Occurrences(l, C2_Labels)]

\* C2: for level > 0 get_file_food_counts returns exactly the map from label
\* to number of occurrences of the ontology-present identifiers of the rows in
\* which every group of allGroups is positive, some group of someGroups is
\* positive, every other group is zero and the list contains the target file,
\* restricted to the labels that occur more often than "water".
C2_ExactCounts ==
    (CallMade /\ file_call.level > 0) =>
        /\ file_call.err = "none"
        /\ file_call.counts = C2_Counts

\* C6: at level 0 every matched identifier of the ontology table is retained
\* as its own label: no two identifiers share a key, and the count of an
\* identifier's key is the number of its occurrences in the exploded lists.
C6_LevelZeroPerFile ==
    (CallReturned /\ file_call.level = 0) =>
        LET present == Range(CallExploded) \cap DOMAIN CallColumn
        IN  /\ \A f \in present :
                /\ CallColumn[f] \in DOMAIN file_call.counts
                /\ file_call.counts[CallColumn[f]] = Occurrences(f, CallExploded)
            /\ \A f, g \in present : f # g => CallColumn[f] # CallColumn[g]
            /\ Cardinality(DOMAIN file_call.counts) = Cardinality(present)

\* the number of the three sets of the membership test that hold the group g
Memberships(g) ==
    (IF g \in Range(all_groups) THEN 1 ELSE 0)
    + (IF g \in Range(some_groups) THEN 1 ELSE 0)
    + (IF g \in groups_excluded(all_groups, some_groups) THEN 1 ELSE 0)

\* C9 as stated: when the membership test executes, every one of the six
\* groups is in exactly one of required, anyOf and excluded.
C9_ExactlyOneSet ==
    CallMade => \A g \in groups : Memberships(g) = 1

\* C9 as amended: when the membership test executes, every one of the six
\* groups is in at least one of required, anyOf and excluded; excluded shares
\* no group with required or anyOf; and a group is in exactly one of the three
\* unless it is both in allGroups and in someGroups, when it is in two.
C9_CoveredAndExcludedDisjoint ==
    CallMade =>
        \A g \in groups :
            /\ Memberships(g) >= 1
            /\ g \in groups_excluded(all_groups, some_groups)
                  => g \notin Range(all_groups) \cup Range(some_groups)
            /\ Memberships(g) = (IF g \in Range(all_groups) \cap Range(some_groups)
                                 THEN 2 ELSE 1)

\* the membership test ran with lists that overlap
C9_Witness ==
    /\ CallMade
    /\ Range(all_groups) \cap Range(some_groups) # {}
    /\ groups_excluded(all_groups, some_groups) # {}

(***************************************************************************)
(* What the properties below say about get_sample_metadata.                *)
(***************************************************************************)
\* the file names a row lists
ListedFiles(row) == Range(StrSplit(row.UniqueFileSources, "|"))

\* every pair of meta comes from a row of one group of allGroups that lists
\* the file, and no pair is there twice
FromUnambiguousRows(meta) ==
    /\ \A i \in DOMAIN meta :
          \E r \in DOMAIN gnps_network :
              /\ \A c \in DOMAIN gnps_network[r].DefaultGroups :
                     gnps_network[r].DefaultGroups[c] # ","
              /\ \E g \in Range(all_groups) :
                     /\ gnps_network[r].DefaultGroups = <<g>>
                     /\ meta[i].group = <<g>>
              /\ meta[i].filename \in ListedFiles(gnps_network[r])
    /\ \A i, j \in DOMAIN meta : meta[i] = meta[j] => i = j

\* C7: a (group, filename) pair is in the result of get_sample_metadata only
\* if a row whose DefaultGroups names one group, a member of allGroups, lists
\* the filename; a row whose DefaultGroups names several groups contributes no
\* pair; and no pair appears twice.
C7_OnlyUnambiguousRows ==
    /\ FromUnambiguousRows(metadata)
    /\ FromUnambiguousRows(metadata_all)

\* the mapping was resolved from a table with a row of several groups, one of
\* them in allGroups, that lists a file the mapping does not have
C7_Witness ==
    /\ pc = "file_loop"
    /\ metadata # <<>>
    /\ \E r \in DOMAIN gnps_network :
          /\ StrContains(<<",">>, gnps_network[r].DefaultGroups)
          /\ \E g \in Range(all_groups) : StrContains(<<g>>, gnps_network[r].DefaultGroups)
          /\ \E f \in ListedFiles(gnps_network[r]) :
                 \A i \in DOMAIN metadata : metadata[i].filename # f

(***************************************************************************)
(* What the properties below say about get_dataset_food_counts.            *)
(***************************************************************************)
\* the count vector of the engine for a study file at the level of the call;
\* a call that raises produces none
Vector(f) ==
    get_file_food_counts(gnps_network, get_sample_types(food_metadata, sample_types),
                         all_groups, some_groups, <<f>>, level).counts

Resolved == {metadata[i].filename : i \in DOMAIN metadata}

WithCounts == {f \in Resolved : DOMAIN Vector(f) # {}}

\* C3: in the matrix get_dataset_food_counts returns, the rows are exactly the
\* resolved study files whose count vector is not empty, each once and each
\* with a nonzero cell; the columns are the union of the labels of those
\* vectors; a cell is the engine's count where there is one and 0 elsewhere.
C3_MatrixComplete ==
    pc = "returned" =>
        /\ Range(food_counts.index) = WithCounts
        /\ \A i, j \in DOMAIN food_counts.index :
               food_counts.index[i] = food_counts.index[j] => i = j
        /\ Range(food_counts.columns) = UNION {DOMAIN Vector(f) : f \in WithCounts}
        /\ \A i, j \in DOMAIN food_counts.columns :
               food_counts.columns[i] = food_counts.columns[j] => i = j
        /\ DOMAIN food_counts.values = DOMAIN food_counts.index
        /\ \A i \in DOMAIN food_counts.index :
               /\ DOMAIN food_counts.values[i] = DOMAIN food_counts.columns
               /\ \A j \in DOMAIN food_counts.columns :
                      food_counts.values[i][j] =
                          IF food_counts.columns[j] \in DOMAIN Vector(food_counts.index[i])
                          THEN Vector(food_counts.index[i])[food_counts.columns[j]]
                          ELSE 0
               /\ \E j \in DOMAIN food_counts.columns : food_counts.values[i][j] # 0

\* a returned matrix of two files with a cell the engine did not produce
C3_Witness ==
    /\ pc = "returned"
    /\ Len(food_counts.index) >= 2
    /\ \E i \in DOMAIN food_counts.index :
           \E j \in DOMAIN food_counts.columns : food_counts.values[i][j] = 0

\* a returned matrix that leaves out a resolved file
C3_WitnessDropped ==
    /\ pc = "returned"
    /\ Resolved # WithCounts

\* C4: when no resolved study file produces a count vector that is not empty,
\* get_dataset_food_counts (and get_dataset_food_counts_all with it) ends
\* normally, with an empty table, and never in an error.
C4_EmptyResultIsNoError ==
    (pc \in {"raised", "returned"} /\ WithCounts = {}) =>
        /\ error = "none"
        /\ pc = "returned"

(***************************************************************************)
(* What the properties below say about get_dataset_food_counts_all.        *)
(***************************************************************************)
\* the rows of the long-form output of one level, in order
RowsOfLevel(lv) == SelectSeq(result_df, LAMBDA row : row.level = lv)

\* C5: for every level L in 0..levels, the long-form rows of level L, reshaped
\* to filename x food_type, are the matrix get_dataset_food_counts returned
\* for L: the same rows, the same columns, the same cells, zeros included,
\* with one long-form row per (filename, food_type, level).
C5_LongFormRoundTrip ==
    pc = "done" =>
        /\ \A k \in DOMAIN result_df : result_df[k].level \in 0..levels
        /\ \A lv \in 0..levels :
              LET frame == level_frames[lv + 1]
                  long == RowsOfLevel(lv)
              IN  /\ {long[k].filename : k \in DOMAIN long} = Range(frame.index)
                  /\ {long[k].food_type : k \in DOMAIN long} = Range(frame.columns)
                  /\ \A i \in DOMAIN frame.index :
                         \A j \in DOMAIN frame.columns :
                             LET hits == {k \in DOMAIN long :
                                             /\ long[k].filename = frame.index[i]
                                             /\ long[k].food_type = frame.columns[j]}
                             IN  /\ Cardinality(hits) = 1
                                 /\ \A k \in hits : long[k].count = frame.values[i][j]

\* an output of more than one level with an explicit zero
C5_Witness ==
    /\ pc = "done"
    /\ levels >= 1
    /\ \E k \in DOMAIN result_df : result_df[k].count = 0 /\ result_df[k].level >= 1

\* C8: every filename of a long-form row is in the mapping get_sample_metadata
\* resolves for the same table and allGroups, and the group of the row is
\* defined and is the group of that mapping.
C8_GroupResolved ==
    pc = "done" =>
        \A k \in DOMAIN result_df :
            /\ result_df[k].group # NaN
            /\ [group |-> result_df[k].group, filename |-> result_df[k].filename]
                   \in Range(get_sample_metadata(gnps_network, all_groups))

\* an output with files of two groups
C8_Witness ==
    /\ pc = "done"
    /\ \E k, m \in DOMAIN result_df : result_df[k].group # result_df[m].group

\* the levels of the output never decrease
LevelsAscend ==
    \A k, m \in DOMAIN result_df : k < m => result_df[k].level <= result_df[m].level

\* C10 as stated: the rows are ordered by level, ascending, and within a level
\* file by file (the files in the row order of the matrix), the labels of a
\* file in the column order of the matrix.
C10_FileMajor ==
    pc = "done" =>
        /\ LevelsAscend
        /\ \A lv \in 0..levels :
              LET frame == level_frames[lv + 1]
                  long == RowsOfLevel(lv)
                  nc == Len(frame.columns)
              IN  /\ Len(long) = Len(frame.index) * nc
                  /\ \A k \in DOMAIN long :
                         /\ long[k].filename = frame.index[((k - 1) \div nc) + 1]
                         /\ long[k].food_type = frame.columns[((k - 1) % nc) + 1]

\* C10 as amended: the rows are ordered by level, ascending, and within a
\* level label by label (the labels in the column order of the matrix), the
\* files of a label in the row order of the matrix.
C10_LabelMajor ==
    pc = "done" =>
        /\ LevelsAscend
        /\ \A lv \in 0..levels :
              LET frame == level_frames[lv + 1]
                  long == RowsOfLevel(lv)
                  nr == Len(frame.index)
              IN  /\ Len(long) = nr * Len(frame.columns)
                  /\ \A k \in DOMAIN long :
                         /\ long[k].food_type = frame.columns[((k - 1) \div nr) + 1]
                         /\ long[k].filename = frame.index[((k - 1) % nr) + 1]

\* an output with a level of two files and two labels
C10_Witness ==
    /\ pc = "done"
    /\ \E lv \in 0..levels :
           /\ Len(level_frames[lv + 1].index) >= 2
           /\ Len(level_frames[lv + 1].columns) >= 2

====
